---- MODULE Spec2Model ----
(***************************************************************************)
(* Backup platform: the worker's polling tick (src/worker/worker.py), the  *)
(* backend API that registers and deletes tracked files                    *)
(* (src/backend/app.py) and the readers of the shared store data/files.json*)
(* (src/backend/app.py get_files, src/stats/app.py load_files_data).       *)
(*                                                                         *)
(* Time is an integer number of seconds (a UTC instant).  A file name is a *)
(* sequence of characters.  The worker tick is split at the points where   *)
(* it touches the shared file system, so that API requests and readers     *)
(* interleave with it as separate processes do.                            *)
(***************************************************************************)
EXTENDS Integers, Sequences, FiniteSets, TLC

VARIABLES
    now,            \* the wall clock (UTC seconds)
    events,         \* environment events so far: clock moves, uploads, deletions (bounded)
    backendUp,      \* the backend module has been imported (startup code ran)
    store,          \* data/files.json: [state, files]
    uploads,        \* the paths that exist under uploads/
    archive,        \* the paths that exist under backups/
    pc,             \* worker: "idle", "loop", "save", "done"
    files,          \* worker: the list json.load returned, mutated in place
    loaded,         \* worker: the list as it was loaded (pre-tick snapshot)
    current_time,   \* worker: the instant captured for the tick
    idx,            \* worker: position of the for loop (1-based)
    updated,        \* worker: the updated flag
    results,        \* this tick: per entry, what the loop body did
    copies,         \* this tick: the shutil.copy2 calls that completed, in order
    written,        \* this tick: the collections handed to json.dump
    log,            \* this tick: the lines written to logs/worker.log
    apiPc,          \* backend: "idle" or "writing" (store opened "w", dump pending)
    apiFiles,       \* backend: the list the pending dump writes
    clobber,        \* writers whose open file was overwritten by the other writer
    lastRead,       \* a reader has just returned without a parsed collection
    retired,        \* ids of entries that delete_file removed
    reusedId,       \* a registration was given an id that had been retired
    sink            \* logs/worker.log: "ok", or "broken" when writing to it raises

vars == <<now, events, backendUp, store, uploads, archive, pc, files, loaded,
          current_time, idx, updated, results, copies, written, log, apiPc,
          apiFiles, clobber, lastRead, retired, reusedId, sink>>

workerVars == <<pc, files, loaded, current_time, idx, updated, results, copies,
                written, log>>
apiVars == <<apiPc, apiFiles, retired, reusedId>>

---------------------------------------------------------------------------
(* Bounds of the model *)

\* how many times the environment acts: clock moves, registrations, deletions
MaxEvents == 4

(* Program constants *)

Minute == 60
Hour == 3600
Day == 86400
TzOffset == 10800
MinSeconds == 30
MinPeriod == 1

(* Inputs *)

FileA == <<"a", ".", "t">>
FileB == <<"b", ".", "t">>
\* a file that is only ever sent with a period the backend refuses
FileC == <<"c", ".", "t">>

\* the upload requests tried: file name, period_value, period_unit
Requests == { <<FileA, 30, "seconds">>, <<FileB, 2, "weeks">>,
              <<FileC, 10, "seconds">>, <<FileC, 0, "hours">>, <<FileC, -1, "days">> }

\* the steps by which the clock moves
Deltas == { 30, 86400 }
Faults == { "none", "copy", "post" }

---------------------------------------------------------------------------
(* Timestamps *)

Null == <<>>

\* datetime.isoformat() of an aware Moscow datetime: wall-clock reading and offset
Iso(t) == <<t + TzOffset, TzOffset>>

\* datetime.fromisoformat(s).astimezone(MOSCOW_TZ): back to the instant
FromIso(s) == s[1] - s[2]

\* strftime("%Y-%m-%d") of the Moscow wall clock: the calendar day
StrfDate(t) == (t + TzOffset) \div Day

\* strftime("%H-%M-%S") of the Moscow wall clock: one token for the second of day
StrfTime(t) == ToString((t + TzOffset) % Day)

---------------------------------------------------------------------------
(* File names *)

LastDot(s) ==
    LET dots == { i \in 1..Len(s) : s[i] = "." }
    IN  IF dots = {} THEN 0 ELSE CHOOSE i \in dots : \A j \in dots : j <= i

\* os.path.splitext: split at the last dot unless only dots precede it
Splitext(s) ==
    LET d == LastDot(s)
    IN  IF d > 0 /\ \E i \in 1..(d - 1) : s[i] # "."
        THEN <<SubSeq(s, 1, d - 1), SubSeq(s, d, Len(s))>>
        ELSE <<s, <<>>>>

\* the archive name without the extension
BackupNameNoExtension(filename, t) == Splitext(filename)[1] \o <<"_", StrfTime(t)>>

BackupName(filename, t) ==
    Splitext(filename)[1] \o <<"_", StrfTime(t)>> \o Splitext(filename)[2]

BackupPath(filename, t) == <<"backups", StrfDate(t)>> \o BackupName(filename, t)

UploadPath(filename) == <<"uploads">> \o filename

---------------------------------------------------------------------------
(* The period of an entry *)

UploadPeriod(period_value, period_unit) ==
    CASE period_unit = "seconds" -> period_value
      [] period_unit = "minutes" -> period_value * Minute
      [] period_unit = "hours"   -> period_value * Hour
      [] period_unit = "days"    -> period_value * Day
      [] OTHER                   -> Hour

\* the next deadline counted from the previous one instead of from the tick
NextTimeFromPrevious(t, file) ==
    CASE file.period_unit = "seconds" -> FromIso(file.next_backup) + file.period_value
      [] file.period_unit = "minutes" -> FromIso(file.next_backup) + file.period_value * Minute
      [] file.period_unit = "hours"   -> FromIso(file.next_backup) + file.period_value * Hour
      [] file.period_unit = "days"    -> FromIso(file.next_backup) + file.period_value * Day
      [] OTHER                        -> FromIso(file.next_backup) + Hour

\* the fallback branch adding a day instead of an hour
NextTimeDayFallback(t, file) ==
    CASE file.period_unit = "seconds" -> t + file.period_value
      [] file.period_unit = "minutes" -> t + file.period_value * Minute
      [] file.period_unit = "hours"   -> t + file.period_value * Hour
      [] file.period_unit = "days"    -> t + file.period_value * Day
      [] OTHER                        -> t + Day

NextTime(t, file) ==
    CASE file.period_unit = "seconds" -> t + file.period_value
      [] file.period_unit = "minutes" -> t + file.period_value * Minute
      [] file.period_unit = "hours"   -> t + file.period_value * Hour
      [] file.period_unit = "days"    -> t + file.period_value * Day
      [] OTHER                        -> t + Hour

---------------------------------------------------------------------------
(* The store *)

StoreOk(fs) == [state |-> "ok", files |-> fs]
StorePartial == [state |-> "partial", files |-> <<>>]
StoreAbsent == [state |-> "absent", files |-> <<>>]

Readable == store.state = "ok"

\* no reader has just come back empty-handed
NoRead == "none"

\* The content a writer leaves when its dump completes: its own list, unless the
\* other writer wrote into the same file while this one had it open; then the
\* bytes of the two dumps overlay each other and the result may not parse.
DumpResults(who, fs) ==
    IF who \in clobber THEN { StoreOk(fs), StorePartial } ELSE { StoreOk(fs) }

\* The writers that have the store open for writing right now
OpenWriters ==
    (IF pc = "save" THEN {"worker"} ELSE {}) \cup
    (IF apiPc = "writing" THEN {"api"} ELSE {})

---------------------------------------------------------------------------
Init ==
    /\ now = 0
    /\ events = 0
    /\ backendUp = FALSE
    /\ store = StoreAbsent
    /\ uploads = {}
    /\ archive = {}
    /\ pc = "idle"
    /\ files = <<>>
    /\ loaded = <<>>
    /\ current_time = 0
    /\ idx = 1
    /\ updated = FALSE
    /\ results = <<>>
    /\ copies = <<>>
    /\ written = <<>>
    /\ log = <<>>
    /\ apiPc = "idle"
    /\ apiFiles = <<>>
    /\ clobber = {}
    /\ lastRead = NoRead
    /\ retired = {}
    /\ reusedId = FALSE
    /\ sink = "ok"

---------------------------------------------------------------------------
(* The clock *)

Advance ==
    /\ events < MaxEvents
    /\ \E d \in Deltas : now' = now + d
    /\ events' = events + 1
    /\ UNCHANGED <<backendUp, sink, store, uploads, archive, clobber>> /\ lastRead' = NoRead
    /\ UNCHANGED workerVars
    /\ UNCHANGED apiVars

\* logs/worker.log stops being writable (the disk is full, the directory is gone)
SinkBreaks ==
    /\ sink = "ok"
    /\ events < MaxEvents
    /\ sink' = "broken"
    /\ events' = events + 1
    /\ UNCHANGED <<now, backendUp, store, uploads, archive, clobber>> /\ lastRead' = NoRead
    /\ UNCHANGED workerVars
    /\ UNCHANGED apiVars

---------------------------------------------------------------------------
(* Backend *)

\* module import: create data/files.json holding [] when it does not exist
BackendStart ==
    /\ ~backendUp
    /\ backendUp' = TRUE
    /\ store' = IF store.state = "absent" THEN StoreOk(<<>>) ELSE store
    /\ UNCHANGED <<now, events, sink, uploads, archive, clobber>> /\ lastRead' = NoRead
    /\ UNCHANGED workerVars
    /\ UNCHANGED apiVars

\* the validation without the 30 second rule
RejectedBelowOne(period_value, period_unit) == period_value < MinPeriod

\* the validation without the lower bound on period_value
RejectedSecondsOnly(period_value, period_unit) ==
    period_unit = "seconds" /\ period_value < MinSeconds

Rejected(period_value, period_unit) ==
    \/ period_unit = "seconds" /\ period_value < MinSeconds
    \/ period_value < MinPeriod

NewEntry(fs, filename, period_value, period_unit, t) ==
    [ id              |-> Len(fs) + 1,
      filename        |-> filename,
      path            |-> UploadPath(filename),
      upload_date     |-> Iso(t),
      period_value    |-> period_value,
      period_unit     |-> period_unit,
      next_backup     |-> Iso(t + UploadPeriod(period_value, period_unit)),
      last_backup     |-> Null,
      backup_count    |-> 0,
      backups_history |-> <<>> ]

\* upload_file up to and including open(FILES_JSON, "w")
ApiUpload ==
    /\ backendUp /\ apiPc = "idle"
    /\ \E r \in Requests :
         LET filename == r[1]
             p == <<r[2], r[3]>>
         IN
         IF Rejected(p[1], p[2])
         THEN UNCHANGED <<uploads, store, apiPc, apiFiles, events, reusedId, clobber>>
         ELSE /\ events < MaxEvents
              /\ events' = events + 1
              /\ uploads' = uploads \cup {UploadPath(filename)}
              /\ IF Readable
                 THEN /\ apiFiles' = Append(store.files,
                                       NewEntry(store.files, filename, p[1], p[2], now))
                      /\ reusedId' = (reusedId \/ (Len(store.files) + 1) \in retired)
                      /\ store' = StorePartial
                      /\ apiPc' = "writing"
                      /\ clobber' = clobber \ {"api"}
                 ELSE UNCHANGED <<store, apiPc, apiFiles, reusedId, clobber>>
    /\ lastRead' = NoRead
    /\ UNCHANGED <<now, backendUp, sink, archive, retired>>
    /\ UNCHANGED workerVars

Matching(fs, file_id) == { i \in 1..Len(fs) : fs[i].id = file_id }

Without(fs, file_id) == SelectSeq(fs, LAMBDA f : f.id # file_id)

\* delete_file up to and including open(FILES_JSON, "w"); a store that does not
\* parse and an id that is not found are answered with an error
ApiDelete ==
    /\ backendUp /\ apiPc = "idle"
    /\ \E file_id \in 1..(Len(store.files) + 1) :
         IF ~Readable \/ Matching(store.files, file_id) = {}
         THEN UNCHANGED <<uploads, store, apiPc, apiFiles, events, retired, clobber>>
         ELSE /\ events < MaxEvents
              /\ events' = events + 1
              /\ LET first == CHOOSE i \in Matching(store.files, file_id) :
                                 \A j \in Matching(store.files, file_id) : i <= j
                 IN  uploads' = uploads \ {store.files[first].path}
              /\ apiFiles' = Without(store.files, file_id)
              /\ retired' = retired \cup {file_id}
              /\ store' = StorePartial
              /\ apiPc' = "writing"
              /\ clobber' = clobber \ {"api"}
    /\ lastRead' = NoRead
    /\ UNCHANGED <<now, backendUp, sink, archive, reusedId>>
    /\ UNCHANGED workerVars

\* json.dump(files, f, indent=2) and the close of the file
ApiWriteEnd ==
    /\ apiPc = "writing"
    /\ store' \in DumpResults("api", apiFiles)
    /\ clobber' = (clobber \ {"api"}) \cup (OpenWriters \ {"api"})
    /\ apiPc' = "idle"
    /\ apiFiles' = <<>>
    /\ lastRead' = NoRead
    /\ UNCHANGED <<now, events, backendUp, sink, uploads, archive, retired, reusedId>>
    /\ UNCHANGED workerVars

\* get_files / load_files_data: open the store and json.load it.  A load that
\* parses returns the list and leaves no trace; a load that raises is caught and
\* the reader answers with an empty list.
ReadStore ==
    /\ backendUp
    /\ store.state # "absent"
    /\ lastRead' = IF Readable THEN NoRead
                   ELSE IF pc = "save" THEN "torn_by_worker" ELSE "torn_by_api"
    /\ UNCHANGED <<now, events, backendUp, sink, store, uploads, archive, clobber>>
    /\ UNCHANGED workerVars
    /\ UNCHANGED apiVars

---------------------------------------------------------------------------
(* Worker: check_backups *)

LogLine(kind, file) == [kind |-> kind, filename |-> file.filename]
TickErrorLine == [kind |-> "tick_error", filename |-> <<>>]

\* a tick that "repairs" a store it cannot parse by emptying it
StoreResetOnLoadFailure(s) == [state |-> "ok", files |-> <<>>]

\* what a tick does with a store it cannot parse: the file is left alone
StoreAfterLoadFailure(s) == s

\* the lines the outer handler writes when the load raises
LoadFailureLog == <<TickErrorLine>>

\* a tick that reports the missing store as an error
MissingStoreLogError == <<TickErrorLine>>

\* lines 31-32: no store, the tick returns without a word
MissingStoreLog == <<>>

\* log_message, lines 25-26: the append to logs/worker.log raises
LogRaises == sink = "broken"

\* Where the worker is after a log_message call made on the way p.  When the
\* call raises it raises again in every handler above it (lines 104, 112, 126):
\* the exception leaves the while loop of main and the process ends.
AfterLog(p) == IF LogRaises THEN "dead" ELSE p

\* what logs/worker.log gains from one log_message call
Logged(line) == IF LogRaises THEN log ELSE Append(log, line)

TickStart ==
    /\ pc = "idle"
    /\ results' = <<>>
    /\ copies' = <<>>
    /\ written' = <<>>
    /\ current_time' = now
    /\ idx' = 1
    /\ updated' = FALSE
    /\ CASE store.state = "absent" ->
              /\ pc' = "done"
              /\ log' = MissingStoreLog
              /\ files' = <<>> /\ loaded' = <<>>
              /\ store' = store
         [] store.state = "partial" ->
              /\ pc' = AfterLog("done")
              /\ log' = IF LogRaises THEN <<>> ELSE LoadFailureLog
              /\ files' = <<>> /\ loaded' = <<>>
              /\ store' = StoreAfterLoadFailure(store)
         [] OTHER ->
              /\ pc' = "loop"
              /\ log' = <<>>
              /\ files' = store.files /\ loaded' = store.files
              /\ store' = store
    /\ UNCHANGED <<now, events, backendUp, sink, uploads, archive, clobber>> /\ lastRead' = NoRead
    /\ UNCHANGED apiVars

\* the clock read again for every entry
EntryClockReread == now

\* line 38: the instant the loop body works with is the one captured before the loop
EntryClock == current_time

\* the due test leaving out the deadline itself
IsDueStrict(t, file) == t > FromIso(file.next_backup)

IsDue(t, file) == t >= FromIso(file.next_backup)

\* the bookkeeping touching the registration time as well
ExecutedTouchesUpload(file, t) ==
    [file EXCEPT
        !.upload_date = Iso(t),
        !.last_backup = Iso(t),
        !.backup_count = @ + 1,
        !.backups_history = Append(@, [ time     |-> Iso(t),
                                        filename |-> BackupName(file.filename, t),
                                        date     |-> StrfDate(t) ]),
        !.next_backup = Iso(NextTime(t, file)) ]

\* the bookkeeping taking the deadline, not the tick's instant, as last_backup
ExecutedLastIsDeadline(file, t) ==
    [file EXCEPT
        !.last_backup = file.next_backup,
        !.backup_count = @ + 1,
        !.backups_history = Append(@, [ time     |-> Iso(t),
                                        filename |-> BackupName(file.filename, t),
                                        date     |-> StrfDate(t) ]),
        !.next_backup = Iso(NextTime(t, file)) ]

\* the bookkeeping with the history record forgotten
ExecutedNoRecord(file, t) ==
    [file EXCEPT
        !.last_backup = Iso(t),
        !.backup_count = @ + 1,
        !.next_backup = Iso(NextTime(t, file)) ]

\* lines 68-96: the bookkeeping after a completed copy
Executed(file, t) ==
    [file EXCEPT
        !.last_backup = Iso(t),
        !.backup_count = @ + 1,
        !.backups_history = Append(@, [ time     |-> Iso(t),
                                        filename |-> BackupName(file.filename, t),
                                        date     |-> StrfDate(t) ]),
        !.next_backup = Iso(NextTime(t, file)) ]

\* a failing entry ending the loop (break instead of continue)
NextIdxBreak(i, result, n) == IF result = "missing" THEN n + 1 ELSE i + 1

\* the loop goes on with the next entry whatever the body did (continue)
NextIdx(i, result, n) == i + 1

\* a missing source pushing the deadline on by one period
MissedRescheduled(file, t) == [file EXCEPT !.next_backup = Iso(NextTime(t, file))]

\* lines 100-101: the else branch assigns nothing to the entry
Missed(file, t) == file

\* the bookkeeping done before the copy: a failed copy leaves its record behind
CopyFailedAfterRecord(file, t) ==
    [file EXCEPT
        !.last_backup = Iso(t),
        !.backup_count = @ + 1,
        !.backups_history = Append(@, [ time     |-> Iso(t),
                                        filename |-> BackupName(file.filename, t),
                                        date     |-> StrfDate(t) ])]

\* line 65 raises (or line 57): lines 68-96 are not reached
CopyFailed(file, t) == file

\* what the loop body did with a due entry whose source exists
Outcome(fault) ==
    IF fault = "copy" THEN "copy"
    ELSE IF fault = "none" /\ ~LogRaises THEN "ok"
    ELSE "post"

ProcessEntry ==
    /\ pc = "loop" /\ idx <= Len(files)
    /\ LET file == files[idx] IN
       \/ /\ file.next_backup = Null
          /\ results' = Append(results, "unscheduled")
          /\ idx' = NextIdx(idx, "unscheduled", Len(files))
          /\ UNCHANGED <<pc, files, updated, copies, log, archive>>
       \/ /\ file.next_backup # Null
          /\ ~IsDue(EntryClock, file)
          /\ results' = Append(results, "notdue")
          /\ idx' = NextIdx(idx, "notdue", Len(files))
          /\ UNCHANGED <<pc, files, updated, copies, log, archive>>
       \/ /\ file.next_backup # Null
          /\ IsDue(EntryClock, file)
          /\ file.path \notin uploads
          /\ results' = Append(results, "missing")
          /\ idx' = NextIdx(idx, "missing", Len(files))
          /\ log' = Logged(LogLine("not_found", file))
          /\ pc' = AfterLog(pc)
          /\ files' = [files EXCEPT ![idx] = Missed(file, EntryClock)]
          /\ UNCHANGED <<updated, copies, archive>>
       \/ /\ file.next_backup # Null
          /\ IsDue(EntryClock, file)
          /\ file.path \in uploads
          /\ \E fault \in Faults :
               /\ results' = Append(results, Outcome(fault))
               /\ idx' = NextIdx(idx, Outcome(fault), Len(files))
               /\ pc' = AfterLog(pc)
               /\ IF fault = "copy"
                  THEN \* shutil.copy2 (or makedirs) raises: nothing was assigned
                       /\ log' = Logged(LogLine("error", file))
                       /\ files' = [files EXCEPT ![idx] = CopyFailed(file, EntryClock)]
                       /\ UNCHANGED <<updated, copies, archive>>
                  ELSE /\ archive' = archive \cup {BackupPath(file.filename, EntryClock)}
                       /\ copies' = Append(copies, idx)
                       /\ files' = [files EXCEPT ![idx] = Executed(file, EntryClock)]
                       /\ IF Outcome(fault) = "ok"
                          THEN /\ log' = Logged(LogLine("backup", file))
                               /\ updated' = TRUE
                          ELSE \* the write of line 98 raises: updated is not set
                               /\ log' = Logged(LogLine("error", file))
                               /\ UNCHANGED updated
    /\ UNCHANGED <<loaded, current_time, written>>
    /\ UNCHANGED <<now, events, backendUp, sink, store, uploads, clobber>> /\ lastRead' = NoRead
    /\ UNCHANGED apiVars

\* saving on every tick
ShouldSaveAlways(flag) == TRUE

\* line 107: the store is written only if some entry set the flag
ShouldSave(flag) == flag

\* dumping only the entries that still have a schedule
SaveContentScheduledOnly(fs) == SelectSeq(fs, LAMBDA f : f.next_backup # Null)

\* dumping the loop variable (the last entry) instead of the list
SaveContentLoopVar(fs) == <<fs[Len(fs)]>>

\* line 109: the whole list is dumped
SaveContent(fs) == fs

\* the end of the for loop: if updated, open("data/files.json", "w")
LoopEnd ==
    /\ pc = "loop" /\ idx > Len(files)
    /\ IF ShouldSave(updated)
       THEN /\ store' = StorePartial
            /\ pc' = "save"
            /\ clobber' = clobber \ {"worker"}
       ELSE /\ pc' = "done"
            /\ UNCHANGED <<store, clobber>>
    /\ UNCHANGED <<files, loaded, current_time, idx, updated, results, copies,
                   written, log>>
    /\ UNCHANGED <<now, events, backendUp, sink, uploads, archive>> /\ lastRead' = NoRead
    /\ UNCHANGED apiVars

\* json.dump(files, f, indent=2, ensure_ascii=False) and the close of the file
SaveDump ==
    /\ pc = "save"
    /\ store' \in DumpResults("worker", SaveContent(files))
    /\ written' = Append(written, SaveContent(files))
    /\ clobber' = (clobber \ {"worker"}) \cup (OpenWriters \ {"worker"})
    /\ pc' = "done"
    /\ UNCHANGED <<files, loaded, current_time, idx, updated, results, copies, log>>
    /\ UNCHANGED <<now, events, backendUp, sink, uploads, archive>> /\ lastRead' = NoRead
    /\ UNCHANGED apiVars

\* check_backups returns to the loop of main, which sleeps until the next run
TickEnd ==
    /\ pc = "done"
    /\ pc' = "idle"
    /\ files' = <<>> /\ loaded' = <<>>
    /\ current_time' = 0 /\ idx' = 1 /\ updated' = FALSE
    /\ results' = <<>> /\ copies' = <<>> /\ written' = <<>> /\ log' = <<>>
    /\ UNCHANGED <<now, events, backendUp, sink, store, uploads, archive, clobber>> /\ lastRead' = NoRead
    /\ UNCHANGED apiVars

---------------------------------------------------------------------------
Next ==
    \/ Advance
    \/ BackendStart
    \/ ApiUpload
    \/ ApiDelete
    \/ ApiWriteEnd
    \/ ReadStore
    \/ TickStart
    \/ ProcessEntry
    \/ LoopEnd
    \/ SaveDump
    \/ TickEnd

Spec == Init /\ [][Next]_vars

---------------------------------------------------------------------------
(* The worker alone, over stores that registrations at time 0 produced, with  *)
(* every period unit present: the specification for claims about the          *)
(* arithmetic of one tick.                                                     *)

WorkerRequests == { <<FileA, 30, "seconds">>, <<FileA, 2, "minutes">>, <<FileB, 1, "hours">>,
                    <<FileB, 1, "days">>, <<FileB, 3, "fortnights">> }

\* the instants at which the worker process is started
StartTimes == { 35 }

RegisteredStores ==
    LET one(r) == <<NewEntry(<<>>, r[1], r[2], r[3], 0)>>
    IN  { one(r) : r \in WorkerRequests } \cup
        { Append(one(r), NewEntry(one(r), FileA, 30, "seconds", 0)) :
            r \in WorkerRequests }

\* an entry whose next_backup someone outside the platform has set to null
Unschedule(e) == [e EXCEPT !.next_backup = Null]

\* the two-entry stores after one of their entries was unscheduled by hand
UnscheduledStores ==
    { [fs EXCEPT ![i] = Unschedule(fs[i])] :
        fs \in { gs \in RegisteredStores : Len(gs) = 2 }, i \in {1, 2} }

WorkerStores == RegisteredStores \cup UnscheduledStores

\* the state after the registrations of one such store and one move of the clock
InitWorker ==
    /\ now \in StartTimes
    /\ backendUp = TRUE
    /\ \E fs \in WorkerStores :
         /\ store = StoreOk(fs)
         /\ uploads = { fs[i].path : i \in 1..Len(fs) }
         /\ events = Len(fs) + 1
    /\ archive = {}
    /\ pc = "idle"
    /\ files = <<>>
    /\ loaded = <<>>
    /\ current_time = 0
    /\ idx = 1
    /\ updated = FALSE
    /\ results = <<>>
    /\ copies = <<>>
    /\ written = <<>>
    /\ log = <<>>
    /\ apiPc = "idle"
    /\ apiFiles = <<>>
    /\ clobber = {}
    /\ lastRead = NoRead
    /\ retired = {}
    /\ reusedId = FALSE
    /\ sink = "ok"

NextWorker ==
    \/ Advance
    \/ TickStart
    \/ ProcessEntry
    \/ LoopEnd
    \/ SaveDump
    \/ TickEnd

SpecWorker == InitWorker /\ [][NextWorker]_vars

---------------------------------------------------------------------------
(* The worker alone over stores of two due entries with arbitrary file names: *)
(* the specification for the claim about archive names.                       *)

\* file names are made of these characters and have at most this length
NameChars == { "a", "." }
MaxNameLen == 3

Names == UNION { [1..n -> NameChars] : n \in 1..MaxNameLen }

\* two registrations at time 0, every 30 seconds; the first name is shorter than
\* the longest names
NamedStores ==
    { <<NewEntry(<<>>, n1, 30, "seconds", 0),
        NewEntry(<<NewEntry(<<>>, n1, 30, "seconds", 0)>>, n2, 30, "seconds", 0)>> :
        n1 \in { n \in Names : Len(n) < MaxNameLen }, n2 \in Names }

InitNames ==
    /\ now \in StartTimes
    /\ backendUp = TRUE
    /\ \E fs \in NamedStores :
         /\ store = StoreOk(fs)
         /\ uploads = { fs[i].path : i \in 1..Len(fs) }
    /\ events = MaxEvents - 1
    /\ archive = {}
    /\ pc = "idle"
    /\ files = <<>>
    /\ loaded = <<>>
    /\ current_time = 0
    /\ idx = 1
    /\ updated = FALSE
    /\ results = <<>>
    /\ copies = <<>>
    /\ written = <<>>
    /\ log = <<>>
    /\ apiPc = "idle"
    /\ apiFiles = <<>>
    /\ clobber = {}
    /\ lastRead = NoRead
    /\ retired = {}
    /\ reusedId = FALSE
    /\ sink = "ok"

SpecNames == InitNames /\ [][NextWorker]_vars

---------------------------------------------------------------------------
(* The worker alone with a log file that can stop being writable.             *)

NextSink ==
    \/ Advance
    \/ SinkBreaks
    \/ TickStart
    \/ ProcessEntry
    \/ LoopEnd
    \/ SaveDump
    \/ TickEnd

SpecSink == InitWorker /\ [][NextSink]_vars

---------------------------------------------------------------------------
(* The retry of an entry whose source is gone: the platform from a state in   *)
(* which one registered entry has lost its source file, with the worker       *)
(* scheduled again and again (main runs check_backups every 10 seconds).      *)

\* one entry registered at time 0 whose file under uploads/ has been removed
InitRetry ==
    /\ now = 0
    /\ events = 2
    /\ backendUp = TRUE
    /\ store = StoreOk(<<NewEntry(<<>>, FileA, 30, "seconds", 0)>>)
    /\ uploads = {}
    /\ archive = {}
    /\ pc = "idle"
    /\ files = <<>>
    /\ loaded = <<>>
    /\ current_time = 0
    /\ idx = 1
    /\ updated = FALSE
    /\ results = <<>>
    /\ copies = <<>>
    /\ written = <<>>
    /\ log = <<>>
    /\ apiPc = "idle"
    /\ apiFiles = <<>>
    /\ clobber = {}
    /\ lastRead = NoRead
    /\ retired = {}
    /\ reusedId = FALSE
    /\ sink = "ok"

NextRetry ==
    \/ Advance
    \/ ApiUpload
    \/ ApiDelete
    \/ ApiWriteEnd
    \/ TickStart
    \/ ProcessEntry
    \/ LoopEnd
    \/ SaveDump
    \/ TickEnd

\* the loop of main keeps running check_backups, and every call runs to its end;
\* a request that has opened the store finishes its dump
TicksAreFair ==
    /\ WF_vars(TickStart)
    /\ WF_vars(ProcessEntry)
    /\ WF_vars(LoopEnd)
    /\ WF_vars(SaveDump)
    /\ WF_vars(TickEnd)
    /\ WF_vars(ApiWriteEnd)

\* a copy that can be attempted again and again does not fail for ever
CopyEventuallySucceeds ==
    SF_vars(ProcessEntry /\ results' = Append(results, "ok"))

SpecRetry == InitRetry /\ [][NextRetry]_vars /\ TicksAreFair /\ CopyEventuallySucceeds

---------------------------------------------------------------------------
(* Vocabulary of the claims *)

\* the entries the loop of the current tick has gone through
Processed == 1..Len(results)

\* how many completed copies of this tick belong to entry i
CopiesOf(i) == Cardinality({ k \in 1..Len(copies) : copies[k] = i })

\* entry i was due when the tick loaded it
WasDue(i) ==
    /\ loaded[i].next_backup # Null
    /\ current_time >= FromIso(loaded[i].next_backup)

\* the period of an entry in seconds, as the specification defines it
PeriodOf(f) ==
    IF f.period_unit = "seconds" THEN f.period_value
    ELSE IF f.period_unit = "minutes" THEN 60 * f.period_value
    ELSE IF f.period_unit = "hours" THEN 3600 * f.period_value
    ELSE IF f.period_unit = "days" THEN 86400 * f.period_value
    ELSE 3600

\* the worker takes a step (API requests, readers and the clock leave pc and idx alone)
WorkerStep == pc' # pc \/ idx' # idx

---------------------------------------------------------------------------
\* C1: in one tick every entry that is due, whose source exists and whose
\* execution succeeds gets exactly one copy, one more history record and
\* backup_count + 1, however many periods have elapsed since next_backup, and
\* is no longer due at the tick's current_time; no entry is copied more than
\* once in a tick, an entry that is not executed is not copied, and a due entry
\* is never passed over as not due.
C1_OneBackupPerTick ==
    \A i \in Processed :
        /\ CopiesOf(i) <= 1
        /\ results[i] = "ok" =>
              /\ WasDue(i)
              /\ CopiesOf(i) = 1
              /\ files[i].backup_count = loaded[i].backup_count + 1
              /\ Len(files[i].backups_history) = Len(loaded[i].backups_history) + 1
              /\ current_time < FromIso(files[i].next_backup)
        /\ results[i] \in {"unscheduled", "notdue", "missing", "copy"} =>
              /\ CopiesOf(i) = 0
              /\ files[i] = loaded[i]
        /\ results[i] \in {"unscheduled", "notdue"} => ~WasDue(i)

\* an entry overdue by at least two whole periods has been backed up in a finished tick
C1_Witness ==
    /\ pc = "done"
    /\ \E i \in Processed :
         /\ results[i] = "ok"
         /\ current_time >= FromIso(loaded[i].next_backup) + 2 * PeriodOf(loaded[i])
         /\ files[i].backup_count = loaded[i].backup_count + 1

\* C2: after a successful execution next_backup is the tick's current_time plus
\* period_value seconds, minutes, hours or days, and plus one hour for any other
\* unit, whatever the previous next_backup was; the backup is counted once.
C2_NextDueAnchoredToTick ==
    \A i \in Processed :
        results[i] = "ok" =>
            /\ files[i].next_backup # Null
            /\ FromIso(files[i].next_backup) = current_time + PeriodOf(loaded[i])
            /\ files[i].backup_count = loaded[i].backup_count + 1

\* period 30 seconds, next_due T, tick at T + 5: next_due (T + 5) + 30, backup_count 1
C2_Witness ==
    /\ pc = "done"
    /\ \E i \in Processed :
         /\ results[i] = "ok"
         /\ loaded[i].period_unit = "seconds" /\ loaded[i].period_value = 30
         /\ current_time = FromIso(loaded[i].next_backup) + 5
         /\ FromIso(files[i].next_backup) = current_time + 30
         /\ files[i].backup_count = 1
         /\ written = <<files>>

\* C3: a due entry whose source is missing does not stop the tick: every entry
\* of the loaded list is processed, an entry that succeeds in the same tick is
\* backed up, rescheduled and saved, and the missing entry is saved exactly as
\* it was loaded, whichever of the two comes first.
C3_FailureIsolation ==
    pc = "done" =>
        /\ Len(results) = Len(loaded)
        /\ (\E j \in Processed : results[j] = "ok") =>
              /\ Len(written) = 1
              /\ Len(written[1]) = Len(loaded)
              /\ \A i \in Processed :
                    /\ results[i] = "missing" => written[1][i] = loaded[i]
                    /\ results[i] = "ok" =>
                          /\ CopiesOf(i) = 1
                          /\ written[1][i].backup_count = loaded[i].backup_count + 1
                          /\ FromIso(written[1][i].next_backup) > current_time
                          /\ FromIso(written[1][i].next_backup) >
                                 FromIso(loaded[i].next_backup)

\* the first entry's source was missing, the second was backed up and saved
C3_Witness ==
    /\ pc = "done"
    /\ results = <<"missing", "ok">>
    /\ Len(written) = 1
    /\ written[1][1] = loaded[1]
    /\ written[1][2].backup_count = loaded[2].backup_count + 1

\* C4: whatever makes the execution of a due entry fail (source missing, copy
\* error, an exception raised after the copy), the entry is written back exactly
\* as it was loaded when another entry of the same tick triggers the save.
C4_FailedEntryUnmodified ==
    (pc = "done" /\ Len(written) = 1) =>
        \A i \in Processed :
            results[i] \in {"missing", "copy", "post"} => written[1][i] = loaded[i]

\* C5: a reader that loads the store while the worker is saving it always gets
\* a complete collection.
C5_ReadersSeeWholeCollection == lastRead # "torn_by_worker"

\* C6: in every persisted store every entry has backup_count equal to the
\* length of its backups_history.
C6_CountMatchesHistory ==
    Readable =>
        \A i \in 1..Len(store.files) :
            store.files[i].backup_count = Len(store.files[i].backups_history)

\* the store holds an entry that was backed up twice
C6_Witness ==
    /\ Readable
    /\ \E i \in 1..Len(store.files) :
         /\ store.files[i].backup_count = 2
         /\ Len(store.files[i].backups_history) = 2

\* C7: the ids of the collection are pairwise distinct and no registration is
\* given the id of a deleted entry.
C7_IdsUniqueNeverReused ==
    /\ ~reusedId
    /\ Readable =>
          \A i, j \in 1..Len(store.files) :
              i # j => store.files[i].id # store.files[j].id

\* C8: as long as no entry of the tick has succeeded, no step of the worker
\* opens or writes the store: the tick ends without a save and leaves the
\* persisted content as it found it.
C8_NoWriteWithoutChange ==
    [][ ( /\ WorkerStep
          /\ pc \in {"idle", "loop"}
          /\ \A i \in 1..Len(results') : results'[i] # "ok" )
        => ( /\ store' = store
             /\ written' = <<>>
             /\ pc' # "save" ) ]_vars

\* a tick whose only due entries failed has ended without a save
C8_Witness ==
    /\ pc = "done"
    /\ Len(results) = Len(loaded)
    /\ \E i \in Processed : WasDue(i)
    /\ \A i \in Processed : results[i] # "ok"
    /\ written = <<>>

\* C9: the store is written at most once per tick, only after the loop has gone
\* through every entry, and that one write holds the update of every entry that
\* was backed up in the tick.
C9_SingleSaveHoldsAllUpdates ==
    /\ Len(written) <= 1
    /\ pc = "save" => (idx > Len(files) /\ Len(results) = Len(loaded))
    /\ (pc = "done" /\ \E j \in Processed : results[j] = "ok") =>
          /\ Len(written) = 1
          /\ Len(written[1]) = Len(loaded)
          /\ \A i \in Processed :
                results[i] = "ok" =>
                    LET e == written[1][i]
                        h == e.backups_history
                    IN  /\ CopiesOf(i) = 1
                        /\ e.id = loaded[i].id
                        /\ e.last_backup = Iso(current_time)
                        /\ e.backup_count = loaded[i].backup_count + 1
                        /\ Len(h) = Len(loaded[i].backups_history) + 1
                        /\ h[Len(h)].time = Iso(current_time)

\* two entries with different file names were both backed up and saved together
C9_Witness ==
    /\ pc = "done"
    /\ results = <<"ok", "ok">>
    /\ loaded[1].filename # loaded[2].filename
    /\ Len(copies) = 2
    /\ Len(written) = 1
    /\ written[1][1].backup_count = loaded[1].backup_count + 1
    /\ written[1][2].backup_count = loaded[2].backup_count + 1

\* C10: a tick that finds a store it cannot parse processes nothing, copies
\* nothing, leaves the store as it is, logs the failure and returns.
C10_CorruptStoreSkipsTick ==
    [][ (pc = "idle" /\ pc' # "idle" /\ store.state = "partial")
        => ( /\ pc' = "done"
             /\ store' = store
             /\ archive' = archive
             /\ results' = <<>>
             /\ copies' = <<>>
             /\ written' = <<>>
             /\ log' = <<TickErrorLine>> ) ]_vars

\* a tick has just returned from a store that does not parse
C10_Witness ==
    /\ pc = "done"
    /\ store.state = "partial"
    /\ log = <<TickErrorLine>>
    /\ results = <<>>
    /\ written = <<>>

\* the store holds, at position i, an entry that is due now and whose source exists
Pending(i) ==
    /\ Readable
    /\ i <= Len(store.files)
    /\ store.files[i].next_backup # Null
    /\ IsDue(now, store.files[i])
    /\ store.files[i].path \in uploads

\* the store that overlapping writers left unparsable, with no writer at work
Corrupted == store.state = "partial" /\ OpenWriters = {}

\* position i of the store no longer holds a due entry with a source: it was
\* backed up and rescheduled, its source is gone again, or it was deleted
Settled(i) == (Readable /\ ~Pending(i)) \/ Corrupted

\* the loop body is at a due entry whose source is missing
AtMissing ==
    /\ pc = "loop" /\ idx <= Len(files)
    /\ files[idx].next_backup # Null
    /\ IsDue(current_time, files[idx])
    /\ files[idx].path \notin uploads

\* C11: a due entry whose source is missing is attempted by every tick that
\* reaches it (no retry limit, no backoff) and the attempt changes nothing, so it
\* stays due; once the source is there and stays, fair ticks eventually back the
\* entry up and advance its next_backup.
C11_RetryUntilBackedUp ==
    /\ [][ (AtMissing /\ idx' # idx)
           => ( /\ results' = Append(results, "missing")
                /\ files' = files
                /\ updated' = updated
                /\ archive' = archive
                /\ log' = Append(log, LogLine("not_found", files[idx])) ) ]_vars
    /\ \A i \in 1..MaxEvents : Pending(i) ~> Settled(i)

\* the entry that had lost its source has been backed up, long after its
\* deadline, by a tick that found the source again
C11_Witness ==
    /\ pc = "done"
    /\ Len(results) >= 1 /\ results[1] = "ok"
    /\ current_time >= FromIso(loaded[1].next_backup) + 30
    /\ Len(written) = 1
    /\ written[1][1].backup_count = 1
    /\ FromIso(written[1][1].next_backup) = current_time + 30
    /\ Readable /\ ~Pending(1)

\* C12: no failure inside a tick ends the worker: whatever is raised while
\* loading, processing or saving is caught and logged, and the loop of main is
\* still running afterwards.
C12_WorkerNeverEnds == pc # "dead"

\* C13: in every persisted store, and in every collection the worker writes,
\* an entry that has a last_backup has a next_backup strictly later than it.
C13_NextAfterLast ==
    /\ Readable =>
          \A i \in 1..Len(store.files) :
              store.files[i].last_backup # Null =>
                  /\ store.files[i].next_backup # Null
                  /\ FromIso(store.files[i].next_backup) >
                         FromIso(store.files[i].last_backup)
    /\ \A k \in 1..Len(written) : \A i \in 1..Len(written[k]) :
          written[k][i].last_backup # Null =>
              FromIso(written[k][i].next_backup) > FromIso(written[k][i].last_backup)

\* the store holds an entry of an unrecognized unit that was backed up: its
\* next_backup is one hour after its last_backup
C13_Witness ==
    /\ Readable
    /\ \E i \in 1..Len(store.files) :
         /\ store.files[i].period_unit = "weeks"
         /\ store.files[i].last_backup # Null
         /\ FromIso(store.files[i].next_backup) =
                FromIso(store.files[i].last_backup) + Hour

\* entry e is in the list fs (the same registration: id, name and upload time)
Holds(fs, e) ==
    \E j \in 1..Len(fs) :
        /\ fs[j].id = e.id
        /\ fs[j].filename = e.filename
        /\ fs[j].upload_date = e.upload_date

\* C14: the worker never removes a registered entry: when it opens the store to
\* save, every entry the store holds at that moment (registered, written, not
\* deleted) is in the list it is about to write.
C14_SaveKeepsRegistered ==
    [][ (pc = "loop" /\ pc' = "save" /\ Readable)
        => \A i \in 1..Len(store.files) : Holds(SaveContent(files), store.files[i]) ]_vars

\* sequence h is a prefix of sequence g
IsPrefix(h, g) == Len(h) <= Len(g) /\ SubSeq(g, 1, Len(h)) = h

\* C15: from one persisted store to the next, an entry that is in both never
\* loses a backup: its backup_count does not decrease and its earlier
\* backups_history is a prefix of the later one.
C15_CountAndHistoryGrow ==
    [][ (Readable /\ store'.state = "ok")
        => \A i \in 1..Len(store.files) : \A j \in 1..Len(store'.files) :
              ( /\ store'.files[j].id = store.files[i].id
                /\ store'.files[j].filename = store.files[i].filename
                /\ store'.files[j].upload_date = store.files[i].upload_date )
              => ( /\ store'.files[j].backup_count >= store.files[i].backup_count
                   /\ IsPrefix(store.files[i].backups_history,
                               store'.files[j].backups_history) ) ]_vars

\* the period the specification allows
ValidPeriod(e) ==
    /\ e.period_value >= 1
    /\ e.period_unit = "seconds" => e.period_value >= 30

\* C16: a request with period_value < 1, or with seconds and period_value < 30,
\* adds no entry (no list the backend writes and no persisted store holds an
\* entry with such a period or for such a request) and writes no file under
\* uploads/; an accepted request appends exactly one entry to the list it read,
\* with backup_count 0, an empty history, no last_backup and next_backup at the
\* registration time plus the period, and its file is under uploads/.
C16_RegisterValidates ==
    [][ /\ UploadPath(FileC) \notin uploads'
        /\ \A i \in 1..Len(apiFiles') :
              ValidPeriod(apiFiles'[i]) /\ apiFiles'[i].filename # FileC
        /\ store'.state = "ok" =>
              \A i \in 1..Len(store'.files) :
                  ValidPeriod(store'.files[i]) /\ store'.files[i].filename # FileC
        /\ (apiPc = "idle" /\ apiPc' = "writing" /\ Len(apiFiles') > Len(store.files))
           => LET e == apiFiles'[Len(apiFiles')]
              IN  /\ apiFiles' = Append(store.files, e)
                  /\ e.backup_count = 0
                  /\ e.backups_history = <<>>
                  /\ e.last_backup = Null
                  /\ e.next_backup # Null
                  /\ FromIso(e.next_backup) = now + PeriodOf(e)
                  /\ e.upload_date = Iso(now)
                  /\ e.path \in uploads' ]_vars

\* a second registration, made at time 30, is being written: one more entry,
\* never backed up, due one period after its registration
C16_Witness ==
    /\ apiPc = "writing"
    /\ now = 30
    /\ Len(apiFiles) = 2
    /\ apiFiles[2].upload_date = Iso(30)
    /\ apiFiles[2].backup_count = 0
    /\ apiFiles[2].last_backup = Null
    /\ FromIso(apiFiles[2].next_backup) = 30 + PeriodOf(apiFiles[2])
    /\ UploadPath(FileC) \notin uploads

\* the loop body made the copy for entry i (bookkeeping included)
Copied(i) == results[i] \in {"ok", "post"}

\* C17: the tick works with one instant, captured before the loop, whatever the
\* clock does meanwhile: every entry copied in the tick gets that instant as
\* last_backup, as the time of its new history record and, as a day, as the
\* record's date, and next_backup is that instant plus the period; the due test
\* of every entry compares with that instant, and an entry whose next_backup
\* equals it is due.
C17_OneInstantPerTick ==
    \A i \in Processed :
        /\ Copied(i) =>
              LET h == files[i].backups_history
              IN  /\ files[i].last_backup = Iso(current_time)
                  /\ Len(h) = Len(loaded[i].backups_history) + 1
                  /\ h[Len(h)].time = Iso(current_time)
                  /\ h[Len(h)].date = StrfDate(current_time)
                  /\ FromIso(files[i].next_backup) = current_time + PeriodOf(loaded[i])
        /\ results[i] = "notdue" => current_time < FromIso(loaded[i].next_backup)
        /\ results[i] \in {"ok", "post", "copy", "missing"} =>
              current_time >= FromIso(loaded[i].next_backup)

\* two entries were backed up in a tick during which the clock moved on, the
\* first of them exactly at its deadline: both carry the tick's instant
C17_Witness ==
    /\ pc = "done"
    /\ results = <<"ok", "ok">>
    /\ now > current_time
    /\ current_time = FromIso(loaded[1].next_backup)
    /\ files[1].last_backup = files[2].last_backup
    /\ files[1].backups_history[1].time = files[2].backups_history[1].time

\* C18: an entry whose next_backup is null is passed over by every tick: it is
\* not copied, none of its fields changes in the worker's list, and every
\* collection the worker writes holds it as it was loaded, still unscheduled.
C18_UnscheduledUntouched ==
    /\ \A i \in 1..Len(loaded) :
          loaded[i].next_backup = Null =>
              /\ Len(files) = Len(loaded)
              /\ files[i] = loaded[i]
              /\ CopiesOf(i) = 0
              /\ i \in Processed => results[i] = "unscheduled"
              /\ \A k \in 1..Len(written) :
                    /\ Len(written[k]) = Len(loaded)
                    /\ written[k][i] = loaded[i]

\* the store has been saved by two ticks that backed up the other entry, and
\* the unscheduled entry is still there, unscheduled and never backed up
C18_Witness ==
    /\ Readable
    /\ pc = "done"
    /\ Len(written) = 1
    /\ \E i, j \in 1..Len(store.files) :
         /\ store.files[i].next_backup = Null
         /\ store.files[i].backup_count = 0
         /\ store.files[i].last_backup = Null
         /\ results[i] = "unscheduled"
         /\ store.files[j].backup_count = 2

\* C19: with no data/files.json a tick returns at once and in silence: nothing
\* is processed, copied or logged, and the store is not created.
C19_MissingStoreIsNoOp ==
    [][ (pc = "idle" /\ pc' # "idle" /\ store.state = "absent")
        => ( /\ pc' = "done"
             /\ store' = store
             /\ archive' = archive
             /\ uploads' = uploads
             /\ files' = <<>>
             /\ results' = <<>>
             /\ copies' = <<>>
             /\ written' = <<>>
             /\ log' = <<>> ) ]_vars

\* a tick has returned while the store did not exist yet
C19_Witness ==
    /\ pc = "done"
    /\ store.state = "absent"
    /\ ~backendUp
    /\ log = <<>>
    /\ results = <<>>
    /\ written = <<>>
    /\ archive = {}

\* the backups recorded in the list fs: <<original file name, history record>>
RecordsOf(fs) ==
    UNION { { <<fs[i].filename, fs[i].backups_history[k]>> :
                k \in 1..Len(fs[i].backups_history) } : i \in 1..Len(fs) }

\* C20: every recorded backup is named stem, "_", the time-of-day token and the
\* extension of the original file name, under the date bucket of its instant;
\* two recorded backups share bucket and archive name only if they are of the
\* same file name at the same instant, so two entries with different file names
\* backed up in one tick get different archive paths, both present in the
\* archive.
C20_ArchiveNames ==
    LET recs == RecordsOf(files) \cup RecordsOf(store.files)
    IN  /\ \A x \in recs :
              LET t == FromIso(x[2].time)
              IN  /\ x[2].filename =
                        Splitext(x[1])[1] \o <<"_", StrfTime(t)>> \o Splitext(x[1])[2]
                  /\ x[2].date = StrfDate(t)
                  /\ (<<"backups", x[2].date>> \o x[2].filename) \in archive
        /\ \A x, y \in recs :
              (x[2].date = y[2].date /\ x[2].filename = y[2].filename)
                  => (x[1] = y[1] /\ x[2].time = y[2].time)
        /\ \A i, j \in Processed :
              (Copied(i) /\ Copied(j) /\ loaded[i].filename # loaded[j].filename)
                  => BackupPath(loaded[i].filename, current_time) #
                         BackupPath(loaded[j].filename, current_time)

\* two files with the same stem and different extensions were backed up in one
\* tick and the archive holds two files
C20_Witness ==
    /\ pc = "done"
    /\ results = <<"ok", "ok">>
    /\ loaded[1].filename # loaded[2].filename
    /\ Splitext(loaded[1].filename)[1] = Splitext(loaded[2].filename)[1]
    /\ Splitext(loaded[2].filename)[2] # <<>>
    /\ Cardinality(archive) = 2
    /\ Len(written) = 1

\* C21: an entry that delete_file has removed does not come back: when the
\* worker opens the store to save, an entry of its list whose id has been
\* deleted is written only if the store still holds that entry (a newer
\* registration under the same id).
C21_DeletedStaysDeleted ==
    [][ (pc = "loop" /\ pc' = "save" /\ Readable /\ apiPc = "idle")
        => \A i \in 1..Len(SaveContent(files)) :
              SaveContent(files)[i].id \in retired
                  => Holds(store.files, SaveContent(files)[i]) ]_vars

\* entry e with the four fields of the bookkeeping taken from entry f
WithBookkeepingOf(e, f) ==
    [e EXCEPT !.last_backup = f.last_backup,
              !.backup_count = f.backup_count,
              !.backups_history = f.backups_history,
              !.next_backup = f.next_backup]

\* C22: the collection a tick saves has the entries of the loaded one, in the
\* same number and order; an entry differs from the loaded one at most in
\* last_backup, backup_count, backups_history and next_backup, and only if it
\* was due and its copy was made in this tick; every other entry is saved as
\* it was loaded.
C22_TickFrame ==
    \A k \in 1..Len(written) :
        /\ Len(written[k]) = Len(loaded)
        /\ Len(results) = Len(loaded)
        /\ \A i \in 1..Len(loaded) :
              /\ WithBookkeepingOf(written[k][i], loaded[i]) = loaded[i]
              /\ ~(WasDue(i) /\ Copied(i)) => written[k][i] = loaded[i]

\* a tick has saved a list in which the due entry carries its new bookkeeping
\* and the entry that was not due is as it was loaded
C22_Witness ==
    /\ pc = "done"
    /\ Len(written) = 1
    /\ \E i, j \in Processed :
         /\ results[i] = "ok" /\ results[j] = "notdue"
         /\ written[1][i] # loaded[i]
         /\ written[1][i].id = loaded[i].id
         /\ written[1][i].upload_date = loaded[i].upload_date
         /\ written[1][j] = loaded[j]

\* the history of entry e agrees with its last_backup and with the calendar
HistoryConsistent(e) ==
    LET h == e.backups_history
    IN  /\ Len(h) > 0 => e.last_backup = h[Len(h)].time
        /\ \A k \in 1..Len(h) : h[k].date = StrfDate(FromIso(h[k].time))
        /\ \A k \in 1..(Len(h) - 1) : FromIso(h[k].time) <= FromIso(h[k + 1].time)

\* C23: in every collection the worker writes, and in every persisted store,
\* an entry with a history has last_backup equal to the time of its last
\* record, every record's date is the calendar day of its time, and the times
\* of the records do not decrease along the history.
C23_HistoryConsistent ==
    /\ \A k \in 1..Len(written) : \A i \in 1..Len(written[k]) :
          HistoryConsistent(written[k][i])
    /\ Readable => \A i \in 1..Len(store.files) : HistoryConsistent(store.files[i])

\* the worker has written an entry backed up on two different days
C23_Witness ==
    /\ pc = "done"
    /\ Len(written) = 1
    /\ \E i \in 1..Len(written[1]) :
         LET h == written[1][i].backups_history
         IN  /\ Len(h) = 2
             /\ h[1].date # h[2].date
             /\ FromIso(h[1].time) < FromIso(h[2].time)
             /\ written[1][i].last_backup = h[2].time

\* the archive paths that the history records of the list fs name
RecordedPaths(fs) ==
    { <<"backups", x[2].date>> \o x[2].filename : x \in RecordsOf(fs) }

\* C24: every history record in a persisted store, and in a list the worker
\* writes, names an archive file that a completed copy has written; the
\* archive may hold copies that no record names.
C24_RecordHasCopy ==
    /\ Readable => RecordedPaths(store.files) \subseteq archive
    /\ \A k \in 1..Len(written) : RecordedPaths(written[k]) \subseteq archive

\* the store holds a record of a copy, and the archive holds also a copy of
\* another instant that no record of the store names (copy made, save not reached)
C24_Witness ==
    /\ Readable
    /\ pc = "idle"
    /\ RecordedPaths(store.files) # {}
    /\ RecordedPaths(store.files) \subseteq archive
    /\ archive \ RecordedPaths(store.files) # {}

====
